---------------------------- MODULE Spec2Model ----------------------------
(***************************************************************************)
(* CH9329 serial-to-HID protocol: the frame codec (ch9329/src/lib.rs),     *)
(* the command/response model, and the serial session                      *)
(* (ch9329-serialport/src/lib.rs).                                         *)
(*                                                                         *)
(* Rust slices are 0-based and half-open; sequences here are 1-based.      *)
(* At(b, i) is b[i] and Slice(b, lo, hi) is b[lo..hi] of the source.       *)
(***************************************************************************)
EXTENDS Integers, Sequences, FiniteSets, TLC

VARIABLES
    \* Device<P> (ch9329-serialport): the transport, the shared buffer, the address
    port, buf, addr,
    \* the running Device call: which call, its position, its locals `len` and
    \* `total`, and its return value once it has returned
    call, pc, len, total, result,
    \* history of the running call: the port calls it made (a run of reads that
    \* returned data is kept as one entry), the number of reads, the bytes the reads
    \* returned, the buffer as the call found it; and the number of calls so far
    io, nreads, got, buf0, ncalls,
    \* codec harness: the test case, the caller's buffer, encode's packet,
    \* the slice handed to decode and what decode returned, the payload writer's result
    tc, cbuf, packet, dbuf, dec, wres,
    \* what Response::decode and KeyCode::from_ascii returned for the test case
    rsp, key,
    \* ch9329-copy: the items stdin yields, the --return flag, the number of items the
    \* key iterator has taken, the key of the running iteration, main's position, the
    \* Device calls main made so far, and main's result once it has returned
    stdin, return_, pos, cur, mpc, trace, exit

devVars == <<port, buf, addr, call, pc, len, total, result, io, nreads, got, buf0, ncalls>>
codecVars == <<tc, cbuf, packet, dbuf, dec, wres>>
pureVars == <<rsp, key>>
copyVars == <<stdin, return_, pos, cur, mpc, trace, exit>>
vars == <<port, buf, addr, call, pc, len, total, result, io, nreads, got, buf0, ncalls,
          tc, cbuf, packet, dbuf, dec, wres, rsp, key, stdin, return_, pos, cur, mpc, trace, exit>>

---------------------------------------------------------------------------
(* Bounds of the model *)

\* longest payload enumerated byte by byte (longer ones are named cases)
MaxData == 2
\* longest raw buffer handed to decode
MaxRaw == 6
\* most key codes in a SendKbGeneralData command (the frame has 6 slots)
MaxCodes == 7
\* longest descriptor of a GetUsbString reply enumerated byte by byte
MaxDescriptor == 3
\* most items ch9329-copy finds on stdin
MaxInput == 3
\* Device calls made in one session
MaxCalls == 2
\* a read returns 1..MaxStep bytes, or all that is pending and fits the slice
MaxStep == 1
\* reads of one call that are counted (the count stays there when more are made)
MaxCounted == 7

---------------------------------------------------------------------------
(* u8 and slices *)

Byte == 0..255

At(b, i) == b[i + 1]

Slice(b, lo, hi) == SubSeq(b, lo + 1, hi)

\* b with b[lo..lo+Len(s)] overwritten by s (copy_from_slice, a read into a slice)
Splice(b, lo, s) ==
    [i \in 1..Len(b) |-> IF i > lo /\ i <= lo + Len(s) THEN s[i - lo] ELSE b[i]]

Fill(n, v) == [i \in 1..n |-> v]

Min(a, b) == IF a < b THEN a ELSE b

RECURSIVE SeqsUpTo(_, _)
\* every sequence over S of length 0..n
SeqsUpTo(S, n) ==
    IF n = 0 THEN {<<>>}
    ELSE LET shorter == SeqsUpTo(S, n - 1)
         IN shorter \cup {Append(s, x) : s \in {t \in shorter : Len(t) = n - 1}, x \in S}

---------------------------------------------------------------------------
(* ch9329/src/lib.rs: constants and errors *)

MAX_PACKET_SIZE == 5 + 64 + 1

HEAD == <<\h57, \hAB>>

Ok(v) == [tag |-> "Ok", val |-> v]
Err(e) == [tag |-> "Err", err |-> e]
\* a Rust panic (index out of bounds, unwrap on Err): no value is returned
Panic == [tag |-> "Panic"]

Incomplete(n) == [kind |-> "Incomplete", n |-> n]
InvalidHead == [kind |-> "InvalidHead"]
InvalidCmd == [kind |-> "InvalidCmd"]
InvalidData == [kind |-> "InvalidData"]
InvalidSum == [kind |-> "InvalidSum"]
Utf8Error(valid_up_to, error_len) ==
    [kind |-> "Utf8", valid_up_to |-> valid_up_to, error_len |-> error_len]

---------------------------------------------------------------------------
(* sum: fold(0, |a, b| a.overflowing_add(b).0) *)

\* the fold with a checked add: past 255 the value is kept, not truncated
sum_nowrap(b) ==
    LET f[i \in 0..Len(b)] == IF i = 0 THEN 0 ELSE f[i - 1] + b[i]
    IN f[Len(b)]

sum(b) ==
    LET f[i \in 0..Len(b)] == IF i = 0 THEN 0 ELSE (f[i - 1] + b[i]) % 256
    IN f[Len(b)]

---------------------------------------------------------------------------
(* Command and its payload encoder *)

GetInfo == [variant |-> "GetInfo"]
SendKbGeneralData(modifiers, codes) ==
    [variant |-> "SendKbGeneralData", modifiers |-> modifiers, codes |-> codes]
SendMyHidData(data) == [variant |-> "SendMyHidData", data |-> data]
GetParaCfg == [variant |-> "GetParaCfg"]
GetUsbString(type_) == [variant |-> "GetUsbString", type_ |-> type_]

\* KeyModifiers bits
LEFT_SHIFT == 2
KeyModifiers_empty == 0

\* Command::cmd with GetInfo given the opcode of its reply
Command_cmd_reply(command) ==
    CASE command.variant = "GetInfo" -> \h81
      [] command.variant = "SendKbGeneralData" -> \h02
      [] command.variant = "SendMyHidData" -> \h06
      [] command.variant = "GetParaCfg" -> \h08
      [] command.variant = "GetUsbString" -> \h0A

Command_cmd(command) ==
    CASE command.variant = "GetInfo" -> \h01
      [] command.variant = "SendKbGeneralData" -> \h02
      [] command.variant = "SendMyHidData" -> \h06
      [] command.variant = "GetParaCfg" -> \h08
      [] command.variant = "GetUsbString" -> \h0A

\* What a payload writer returns: the region as it left it and the length it reports.
Wrote(region, n) == [tag |-> "Ok", buf |-> region, len |-> n]

\* the key codes written from buf[1] on: the reserved byte is left out
Command_data_noreserved(command, region) ==
    CASE command.variant \in {"GetInfo", "GetParaCfg"} -> Wrote(region, 0)
      [] command.variant = "SendKbGeneralData" ->
            IF Len(region) < 8 THEN Panic
            ELSE Wrote([i \in 1..Len(region) |->
                          CASE i = 1 -> command.modifiers
                            [] i \in 2..8 ->
                                  IF i - 1 <= Len(command.codes)
                                  THEN command.codes[i - 1] ELSE \h00
                            [] OTHER -> region[i]], 8)
      [] command.variant = "SendMyHidData" ->
            IF Len(command.data) > Len(region) THEN Panic
            ELSE Wrote(Splice(region, 0, command.data), Len(command.data))
      [] command.variant = "GetUsbString" ->
            IF Len(region) < 1 THEN Panic
            ELSE Wrote(Splice(region, 0,
                    <<CASE command.type_ = "Vendor" -> \h00
                        [] command.type_ = "Product" -> \h01
                        [] command.type_ = "Serial" -> \h02>>), 1)

\* the key-code loop without .chain(iter::repeat(0x00)): the zip ends with the codes
Command_data_nopad(command, region) ==
    CASE command.variant \in {"GetInfo", "GetParaCfg"} -> Wrote(region, 0)
      [] command.variant = "SendKbGeneralData" ->
            IF Len(region) < 8 THEN Panic
            ELSE Wrote([i \in 1..Len(region) |->
                          CASE i = 1 -> command.modifiers
                            [] i = 2 -> \h00
                            [] i \in 3..8 /\ i - 2 <= Len(command.codes) -> command.codes[i - 2]
                            [] OTHER -> region[i]], 8)
      [] command.variant = "SendMyHidData" ->
            IF Len(command.data) > Len(region) THEN Panic
            ELSE Wrote(Splice(region, 0, command.data), Len(command.data))
      [] command.variant = "GetUsbString" ->
            IF Len(region) < 1 THEN Panic
            ELSE Wrote(Splice(region, 0,
                    <<CASE command.type_ = "Vendor" -> \h00
                        [] command.type_ = "Product" -> \h01
                        [] command.type_ = "Serial" -> \h02>>), 1)

\* Command::data(self, buf): buf is the payload region encode hands over
Command_data(command, region) ==
    CASE command.variant \in {"GetInfo", "GetParaCfg"} -> Wrote(region, 0)
      [] command.variant = "SendKbGeneralData" ->
            \* buf[0], buf[1], then buf[2..8] zipped with codes ++ 0, 0, ...
            IF Len(region) < 8 THEN Panic
            ELSE Wrote([i \in 1..Len(region) |->
                          CASE i = 1 -> command.modifiers
                            [] i = 2 -> \h00
                            [] i \in 3..8 ->
                                  IF i - 2 <= Len(command.codes)
                                  THEN command.codes[i - 2] ELSE \h00
                            [] OTHER -> region[i]], 8)
      [] command.variant = "SendMyHidData" ->
            IF Len(command.data) > Len(region) THEN Panic
            ELSE Wrote(Splice(region, 0, command.data), Len(command.data))
      [] command.variant = "GetUsbString" ->
            IF Len(region) < 1 THEN Panic
            ELSE Wrote(Splice(region, 0,
                    <<CASE command.type_ = "Vendor" -> \h00
                        [] command.type_ = "Product" -> \h01
                        [] command.type_ = "Serial" -> \h02>>), 1)

\* The two closures passed to encode: the tests' copy of a byte array
\* (lib.rs:275-278) and Device::send's |buf| command.data(buf).
CopyWriter(data) == [fn |-> "copy", data |-> data]
CommandWriter(command) == [fn |-> "command", command |-> command]

CallWriter(w, region) ==
    IF w.fn = "copy"
    THEN IF Len(w.data) > Len(region) THEN Panic
         ELSE Wrote(Splice(region, 0, w.data), Len(w.data))
    ELSE Command_data(w.command, region)

---------------------------------------------------------------------------
(* encode and decode *)

Encoded(b, p) == [tag |-> "Ok", buf |-> b, packet |-> p]

\* encode with the checksum taken before the length byte is stored
encode_sum_first(b, a, cmd, data) ==
    IF Len(b) < 5 THEN Panic
    ELSE LET head == <<HEAD[1], HEAD[2], a, cmd, At(b, 4)>>
             w == CallWriter(data, Slice(b, 5, Len(b)))
         IN IF w.tag = "Panic" THEN Panic
            ELSE IF w.len > 255 \/ 5 + w.len >= Len(b) THEN Panic
            ELSE LET b1 == head \o w.buf
                     s == sum(Slice(b1, 0, 5 + w.len))
                     b2 == [b1 EXCEPT ![5] = w.len, ![5 + w.len + 1] = s]
                 IN Encoded(b2, Slice(b2, 0, 5 + w.len + 1))

\* encode(buf, addr, cmd, data) -> &buf[..5 + len + 1]; the buffer is left written
encode(b, a, cmd, data) ==
    IF Len(b) < 5 THEN Panic                      \* buf[5..] of a shorter buffer
    ELSE LET head == <<HEAD[1], HEAD[2], a, cmd, At(b, 4)>>
             w == CallWriter(data, Slice(b, 5, Len(b)))
         IN IF w.tag = "Panic" THEN Panic
            ELSE IF w.len > 255 THEN Panic        \* len.try_into().unwrap()
            ELSE IF 5 + w.len >= Len(b) THEN Panic \* buf[5 + len]
            ELSE LET b1 == [(head \o w.buf) EXCEPT ![5] = w.len]
                     b2 == [b1 EXCEPT ![5 + w.len + 1] = sum(Slice(b1, 0, 5 + w.len))]
                 IN Encoded(b2, Slice(b2, 0, 5 + w.len + 1))

Decoded(a, cmd, data) == [addr |-> a, cmd |-> cmd, data |-> data]

\* decode asking for 5 + len bytes: the checksum byte is not counted
decode_short(b) ==
    IF Len(b) < 5 + 1 THEN Err(Incomplete(5 + 1))
    ELSE IF Slice(b, 0, 2) # HEAD THEN Err(InvalidHead)
    ELSE LET n == At(b, 4)
         IN IF Len(b) < 5 + n THEN Err(Incomplete(5 + n))
            ELSE IF Len(b) < 5 + n + 1 THEN Panic
            ELSE IF At(b, 5 + n) # sum(Slice(b, 0, 5 + n)) THEN Err(InvalidSum)
            ELSE Ok(Decoded(At(b, 2), At(b, 3), Slice(b, 5, 5 + n)))

\* decode without the HEAD comparison
decode_nohead(b) ==
    IF Len(b) < 5 + 1 THEN Err(Incomplete(5 + 1))
    ELSE LET n == At(b, 4)
         IN IF Len(b) < 5 + n + 1 THEN Err(Incomplete(5 + n + 1))
            ELSE IF At(b, 5 + n) # sum(Slice(b, 0, 5 + n)) THEN Err(InvalidSum)
            ELSE Ok(Decoded(At(b, 2), At(b, 3), Slice(b, 5, 5 + n)))

\* decode(buf) -> Result<(addr, cmd, data), Error>
decode(b) ==
    IF Len(b) < 5 + 1 THEN Err(Incomplete(5 + 1))
    ELSE IF Slice(b, 0, 2) # HEAD THEN Err(InvalidHead)
    ELSE LET n == At(b, 4)
         IN IF Len(b) < 5 + n + 1 THEN Err(Incomplete(5 + n + 1))
            ELSE IF At(b, 5 + n) # sum(Slice(b, 0, 5 + n)) THEN Err(InvalidSum)
            ELSE Ok(Decoded(At(b, 2), At(b, 3), Slice(b, 5, 5 + n)))


---------------------------------------------------------------------------
(* Response and its payload decoder *)

\* from_u8 with a catch-all arm that answers ErrOperate
CommandExecutionStatus_from_u8_lax(value) ==
    CASE value = \h00 -> Ok("Success")
      [] value = \hE1 -> Ok("ErrTimeout")
      [] value = \hE2 -> Ok("ErrHead")
      [] value = \hE3 -> Ok("ErrCmd")
      [] value = \hE4 -> Ok("ErrSum")
      [] value = \hE5 -> Ok("ErrPara")
      [] OTHER -> Ok("ErrOperate")

CommandExecutionStatus_from_u8(value) ==
    CASE value = \h00 -> Ok("Success")
      [] value = \hE1 -> Ok("ErrTimeout")
      [] value = \hE2 -> Ok("ErrHead")
      [] value = \hE3 -> Ok("ErrCmd")
      [] value = \hE4 -> Ok("ErrSum")
      [] value = \hE5 -> Ok("ErrPara")
      [] value = \hE6 -> Ok("ErrOperate")
      [] OTHER -> Err(InvalidData)

RECURSIVE from_be_bytes(_)
\* u16::from_be_bytes, u32::from_be_bytes
from_be_bytes(b) ==
    IF b = <<>> THEN 0
    ELSE from_be_bytes(SubSeq(b, 1, Len(b) - 1)) * 256 + b[Len(b)]

utf8_char_width(first) ==
    CASE first \in 194..223 -> 2
      [] first \in 224..239 -> 3
      [] first \in 240..244 -> 4
      [] OTHER -> 0

RECURSIVE run_utf8_validation(_, _)
\* core::str::from_utf8 from index i on; error_len 0 stands for None (input ended
\* inside a character)
run_utf8_validation(v, i) ==
    IF i >= Len(v) THEN Ok(v)
    ELSE LET first == At(v, i)
             w == utf8_char_width(first)
             has(k) == i + k < Len(v)
             cont(k) == At(v, i + k) \in 128..191
             second_ok ==
                 LET x == At(v, i + 1)
                 IN CASE w = 2 -> x \in 128..191
                      [] w = 3 -> \/ first = 224 /\ x \in 160..191
                                  \/ first \in 225..236 /\ x \in 128..191
                                  \/ first = 237 /\ x \in 128..159
                                  \/ first \in 238..239 /\ x \in 128..191
                      [] w = 4 -> \/ first = 240 /\ x \in 144..191
                                  \/ first \in 241..243 /\ x \in 128..191
                                  \/ first = 244 /\ x \in 128..143
                      [] OTHER -> FALSE
         IN IF first < 128 THEN run_utf8_validation(v, i + 1)
            ELSE IF w = 0 THEN Err(Utf8Error(i, 1))
            ELSE IF ~has(1) THEN Err(Utf8Error(i, 0))
            ELSE IF ~second_ok THEN Err(Utf8Error(i, 1))
            ELSE IF w = 2 THEN run_utf8_validation(v, i + 2)
            ELSE IF ~has(2) THEN Err(Utf8Error(i, 0))
            ELSE IF ~cont(2) THEN Err(Utf8Error(i, 2))
            ELSE IF w = 3 THEN run_utf8_validation(v, i + 3)
            ELSE IF ~has(3) THEN Err(Utf8Error(i, 0))
            ELSE IF ~cont(3) THEN Err(Utf8Error(i, 3))
            ELSE run_utf8_validation(v, i + 4)

\* from_utf8_unchecked: the bytes are taken as they are
from_utf8_unchecked(v) == Ok(v)

from_utf8(v) == run_utf8_validation(v, 0)

\* vid and pid read one byte late: from data[12..14] and data[14..16]
ParaCfg_late(data) ==
    [operation_mode |-> At(data, 0),
     serial_communication_mode |-> At(data, 1),
     addr |-> At(data, 2),
     baud_rate |-> from_be_bytes(Slice(data, 3, 7)),
     todo_0 |-> Slice(data, 7, 11),
     vid |-> from_be_bytes(Slice(data, 12, 14)),
     pid |-> from_be_bytes(Slice(data, 14, 16)),
     todo_1 |-> Slice(data, 15, 50)]

ParaCfg(data) ==
    [operation_mode |-> At(data, 0),
     serial_communication_mode |-> At(data, 1),
     addr |-> At(data, 2),
     baud_rate |-> from_be_bytes(Slice(data, 3, 7)),
     todo_0 |-> Slice(data, 7, 11),
     vid |-> from_be_bytes(Slice(data, 11, 13)),
     pid |-> from_be_bytes(Slice(data, 13, 15)),
     todo_1 |-> Slice(data, 15, 50)]

\* Response::decode(cmd, data)
Response_decode(cmd, data) ==
    CASE cmd = \h81 ->
            IF Len(data) = 8
            THEN Ok([variant |-> "GetInfo", version |-> At(data, 0)])
            ELSE Err(InvalidData)
      [] cmd = \h82 ->
            IF Len(data) = 1
            THEN LET status == CommandExecutionStatus_from_u8(At(data, 0))
                 IN IF status.tag = "Ok"
                    THEN Ok([variant |-> "SendKbGeneralData", status |-> status.val])
                    ELSE Err(InvalidData)
            ELSE Err(InvalidData)
      [] cmd = \h88 ->
            IF Len(data) = 50
            THEN Ok([variant |-> "GetParaCfg", cfg |-> ParaCfg(data)])
            ELSE Err(InvalidData)
      [] cmd = \h8A ->
            IF Len(data) >= 2
            THEN IF At(data, 0) \notin {\h00, \h01, \h02} THEN Err(InvalidData)
                 ELSE LET type_ == CASE At(data, 0) = \h00 -> "Vendor"
                                     [] At(data, 0) = \h01 -> "Product"
                                     [] At(data, 0) = \h02 -> "Serial"
                          n == At(data, 1)
                      IN IF Len(data) = 2 + n
                         THEN LET descriptor == from_utf8(Slice(data, 2, 2 + n))
                              IN IF descriptor.tag = "Ok"
                                 THEN Ok([variant |-> "GetUsbString", type_ |-> type_,
                                          descriptor |-> descriptor.val])
                                 ELSE descriptor
                         ELSE Err(InvalidData)
            ELSE Err(InvalidData)
      [] OTHER -> Err(InvalidCmd)

---------------------------------------------------------------------------
(* ch9329/src/key_code.rs: KeyCode::from_ascii *)

\* Option<T>
Some(v) == [tag |-> "Some", val |-> v]
None == [tag |-> "Option::None"]

RETURN == \h28

\* KeyCode::from_ascii(value) -> Option<(bool, KeyCode)>: (shift, code)
from_ascii(value) ==
    CASE value = \h20 -> Some(<<FALSE, \h2C>>)                       \* ' '
      [] value = \h21 -> Some(<<TRUE, \h1E>>)                        \* '!'
      [] value = \h22 -> Some(<<TRUE, \h34>>)                        \* '"'
      [] value = \h23 -> Some(<<TRUE, \h20>>)                        \* '#'
      [] value = \h24 -> Some(<<TRUE, \h21>>)                        \* '$'
      [] value = \h25 -> Some(<<TRUE, \h22>>)                        \* '%'
      [] value = \h26 -> Some(<<TRUE, \h24>>)                        \* '&'
      [] value = \h27 -> Some(<<FALSE, \h34>>)                       \* '\''
      [] value = \h28 -> Some(<<TRUE, \h26>>)                        \* '('
      [] value = \h29 -> Some(<<TRUE, \h27>>)                        \* ')'
      [] value = \h2A -> Some(<<TRUE, \h25>>)                        \* '*'
      [] value = \h2B -> Some(<<TRUE, \h2E>>)                        \* '+'
      [] value = \h2C -> Some(<<FALSE, \h36>>)                       \* ','
      [] value = \h2D -> Some(<<FALSE, \h2D>>)                       \* '-'
      [] value = \h2E -> Some(<<FALSE, \h37>>)                       \* '.'
      [] value = \h2F -> Some(<<FALSE, \h38>>)                       \* '/'
      [] value = \h30 -> Some(<<FALSE, \h27>>)                       \* '0'
      [] value \in \h31..\h39 -> Some(<<FALSE, \h1E + (value - \h31)>>)  \* '1'..='9'
      [] value = \h3D -> Some(<<FALSE, \h2E>>)                       \* '='
      [] value \in \h41..\h5A -> Some(<<TRUE, \h04 + (value - \h41)>>)   \* 'A'..='Z'
      [] value = \h5B -> Some(<<FALSE, \h2F>>)                       \* '['
      [] value = \h5C -> Some(<<FALSE, \h31>>)                       \* '\\'
      [] value = \h5D -> Some(<<FALSE, \h30>>)                       \* ']'
      [] value = \h5E -> Some(<<TRUE, \h23>>)                        \* '^'
      [] value = \h5F -> Some(<<TRUE, \h2D>>)                        \* '_'
      [] value = \h60 -> Some(<<FALSE, \h35>>)                       \* '`'
      [] value \in \h61..\h7A -> Some(<<FALSE, \h04 + (value - \h61)>>)  \* 'a'..='z'
      [] value = \h7B -> Some(<<TRUE, \h2F>>)                        \* '{'
      [] value = \h7C -> Some(<<TRUE, \h31>>)                        \* '|'
      [] value = \h7D -> Some(<<TRUE, \h30>>)                        \* '}'
      [] value = \h7E -> Some(<<TRUE, \h35>>)                        \* '~'
      [] OTHER -> None

---------------------------------------------------------------------------
(* Codec harness: the inputs of encode, Command::data and decode, drawn from *)
(* bounded sets, and one action per call.                                    *)

NoValue == [tag |-> "None"]

\* the payload of tests::test_encode
TestData == <<\h00, \h00, \h04, \h00, \h00, \h00, \h00, \h00>>

AddrSamples == {\h00, \h01, \hFF}
CmdSamples == {\h00, \h02, \hFF}
DataBytes == {\h00, \h02, \hFF}
FillSamples == {\h00, \hAA}
RawBytes == {\h00, \h02, \h57, \hAB}
KeyCodeSamples == {\h04, \h28}
ModifierSamples == {KeyModifiers_empty, LEFT_SHIFT}
\* byte changes tried on a frame: +1, -1, top bit
FlipDeltas == {1, 255, 128}

DataSamples ==
    SeqsUpTo(DataBytes, MaxData)
        \cup {TestData, Fill(64, \hFF), Fill(64, \h00), Fill(65, \h01)}

CommandSamples ==
    {GetInfo, GetParaCfg}
        \cup {GetUsbString(t) : t \in {"Vendor", "Product", "Serial"}}
        \cup {SendMyHidData(d) : d \in {<<>>, <<\h01, \h02, \h03>>, Fill(64, \hFF)}}
        \cup {SendKbGeneralData(m, c) :
                m \in ModifierSamples, c \in SeqsUpTo(KeyCodeSamples, MaxCodes)}

\* the bytes 1, 2, .., n
Ramp(n) == [i \in 1..n |-> i]

\* a 50-byte GetParaCfg payload: every byte its offset times k, plus c
ParaRamp(k, c) == [i \in 1..50 |-> ((i - 1) * k + c) % 256]

\* 50-byte payloads of a GetParaCfg reply: the chip's defaults (9600 baud, VID 1A86,
\* PID E129) and payloads whose bytes tell their offsets apart. The first byte of
\* baud_rate stays below 80 so that the value fits the integers of the checker.
ParaSamples ==
    {<<\h80, \h80, \h00, \h00, \h00, \h25, \h80, \h08, \h00, \h00, \h03,
       \h1A, \h86, \hE1, \h29>> \o Fill(35, \h00),
     <<\h00, \h00, \hFF, \h7F, \hFF, \hFF, \hFF, \h00, \h00, \h00, \h00,
       \hFF, \hFF, \hFF, \hFE>> \o Fill(35, \hFF)}
        \cup {ParaRamp(k, c) : k \in {0, 1, 3, 17}, c \in {0, 1, 70}}

\* payloads of a GetUsbString reply: selector, declared length, descriptor bytes
\* ('A', the two bytes of U+00E9, a lead byte of a 3-byte character)
SelectorSamples == {\h00, \h01, \h02, \h03, \hFF}
DescriptorBytes == {\h41, \hC3, \hA9, \hE2}
UsbStringSamples ==
    {<<>>} \cup {<<t>> : t \in SelectorSamples}
        \cup {<<t, n>> \o d : t \in SelectorSamples, n \in 0..(MaxDescriptor + 1),
                              d \in SeqsUpTo(DescriptorBytes, MaxDescriptor)}
        \cup {<<\h01, \h03, \hE2, \h82, \hAC>>, <<\h02, \h04, \hF0, \h9F, \h98, \h80>>,
              <<\h00, \h03, \hED, \hA0, \h80>>, <<\h00, \h3E>> \o Fill(62, \h41)}

\* the (opcode, payload) pairs handed to Response::decode
ResponseSamples ==
    {<<c, d>> : c \in Byte,
                d \in {<<>>, <<\h00>>, <<\h00, \h00>>, Fill(8, \h01), ParaRamp(1, 0)}}
        \cup {<<\h82, <<b>>>> : b \in Byte}
        \cup {<<\h82, d>> : d \in {<<\h00, \h00>>, <<\hE1, \hE1>>, Fill(8, \h00)}}
        \cup {<<\h88, Ramp(n)>> : n \in 0..64}
        \cup {<<\h88, d>> : d \in ParaSamples}
        \cup {<<\h8A, d>> : d \in UsbStringSamples}

TestCases ==
    {[kind |-> "encode", addr |-> a, cmd |-> c, w |-> CopyWriter(d), fill |-> f] :
        a \in AddrSamples, c \in CmdSamples, d \in DataSamples, f \in FillSamples}
    \cup {[kind |-> "encode", addr |-> \h00, cmd |-> Command_cmd(c),
           w |-> CommandWriter(c), fill |-> f] :
        c \in CommandSamples, f \in FillSamples}
    \cup {[kind |-> "raw", bytes |-> b] : b \in SeqsUpTo(RawBytes, MaxRaw)}
    \cup {[kind |-> "response", cmd |-> r[1], data |-> r[2]] : r \in ResponseSamples}
    \cup {[kind |-> "ascii", value |-> v] : v \in Byte}

\* no ch9329-copy run
NoCopy ==
    /\ stdin = <<>> /\ return_ = FALSE /\ pos = 0 /\ cur = NoValue
    /\ mpc = "none" /\ trace = <<>> /\ exit = NoValue

\* Device::open_usb: an open port, a zeroed buffer, address 0x00; no call made yet
open_usb ==
    /\ port = [rx |-> <<>>]
    /\ buf = Fill(MAX_PACKET_SIZE, \h00)
    /\ addr = \h00
    /\ call = [name |-> "none"] /\ pc = "idle" /\ len = 0 /\ total = 0 /\ result = NoValue
    /\ io = <<>> /\ nreads = 0 /\ got = <<>> /\ buf0 = buf /\ ncalls = 0

CodecInit ==
    /\ tc \in TestCases
    /\ cbuf = IF tc.kind = "encode" THEN Fill(MAX_PACKET_SIZE, tc.fill) ELSE <<>>
    /\ packet = NoValue
    /\ dbuf = <<>>
    /\ dec = NoValue
    /\ wres = NoValue
    /\ rsp = NoValue
    /\ key = NoValue
    /\ open_usb
    /\ NoCopy

\* the payload writer called alone on the region encode would give it
CallData ==
    /\ tc.kind = "encode" /\ packet = NoValue /\ wres = NoValue
    /\ wres' = CallWriter(tc.w, Slice(cbuf, 5, Len(cbuf)))
    /\ UNCHANGED <<tc, cbuf, packet, dbuf, dec>>
    /\ UNCHANGED <<devVars, pureVars, copyVars>>

Encode ==
    /\ tc.kind = "encode" /\ packet = NoValue
    /\ LET r == encode(cbuf, tc.addr, tc.cmd, tc.w)
       IN /\ packet' = IF r.tag = "Ok" THEN Ok(r.packet) ELSE r
          /\ cbuf' = IF r.tag = "Ok" THEN r.buf ELSE cbuf
    /\ UNCHANGED <<tc, dbuf, dec, wres>>
    /\ UNCHANGED <<devVars, pureVars, copyVars>>

\* one decode call per run, on the slice b
DecodeOf(b) ==
    /\ dec = NoValue
    /\ dbuf' = b
    /\ dec' = decode(b)
    /\ UNCHANGED <<tc, cbuf, packet, wres>>
    /\ UNCHANGED <<devVars, pureVars, copyVars>>

DecodePacket == packet.tag = "Ok" /\ DecodeOf(packet.val)

DecodePrefix ==
    /\ packet.tag = "Ok"
    /\ \E k \in 0..(Len(packet.val) - 1) : DecodeOf(Slice(packet.val, 0, k))

DecodeFlipped ==
    /\ packet.tag = "Ok"
    /\ \E i \in 1..Len(packet.val), d \in FlipDeltas :
          DecodeOf([packet.val EXCEPT ![i] = (@ + d) % 256])

DecodeRaw == tc.kind = "raw" /\ DecodeOf(tc.bytes)

\* Response::decode called on the test case's opcode and payload
DecodeResponse ==
    /\ tc.kind = "response" /\ rsp = NoValue
    /\ rsp' = Response_decode(tc.cmd, tc.data)
    /\ UNCHANGED <<devVars, codecVars, key, copyVars>>

\* KeyCode::from_ascii called on the test case's byte
FromAscii ==
    /\ tc.kind = "ascii" /\ key = NoValue
    /\ key' = from_ascii(tc.value)
    /\ UNCHANGED <<devVars, codecVars, rsp, copyVars>>

CodecNext ==
    \/ CallData
    \/ Encode
    \/ DecodePacket
    \/ DecodePrefix
    \/ DecodeFlipped
    \/ DecodeRaw
    \/ DecodeResponse
    \/ FromAscii

SpecCodec == CodecInit /\ [][CodecNext]_vars

---------------------------------------------------------------------------
(* Properties of the codec, checked under SpecCodec *)

RECURSIVE Total(_)
\* the arithmetic sum of a byte sequence, untruncated
Total(b) == IF b = <<>> THEN 0 ELSE Total(SubSeq(b, 1, Len(b) - 1)) + b[Len(b)]

IsIncomplete(r) == r.tag = "Err" /\ r.err.kind = "Incomplete"

\* the test case is encode with the copying writer and a payload of at most 64 bytes
CopyCase == tc.kind = "encode" /\ tc.w.fn = "copy" /\ Len(tc.w.data) <= 64

\* C1: decode of the frame encode returned (70-byte buffer, copying writer, payload
\* of 0..64 bytes) is Ok with exactly the address, opcode and payload encoded.
C1_RoundTrip ==
    CopyCase =>
        /\ packet # NoValue => packet.tag = "Ok"
        /\ (dec # NoValue /\ dbuf = packet.val) =>
              dec = Ok(Decoded(tc.addr, tc.cmd, tc.w.data))

\* a 64-byte payload went through encode and decode
C1_Witness ==
    /\ CopyCase /\ Len(tc.w.data) = 64 /\ tc.fill # \h00
    /\ dec # NoValue /\ dbuf = packet.val /\ dec.tag = "Ok"

\* C2: decode returns Incomplete(N) exactly (a) for a buffer shorter than 6 bytes,
\* with N = 6 whatever the bytes, and (b) for a buffer of at least 6 bytes that
\* starts with 57 AB and is shorter than 5+L+1, L its byte 4, with N = 5+L+1;
\* N is always greater than the buffer's length.
C2_Incomplete ==
    dec # NoValue =>
        LET short == Len(dbuf) < 6
            partial == /\ Len(dbuf) >= 6
                       /\ At(dbuf, 0) = \h57 /\ At(dbuf, 1) = \hAB
                       /\ Len(dbuf) < 5 + At(dbuf, 4) + 1
        IN /\ short => dec = Err(Incomplete(6))
           /\ partial => dec = Err(Incomplete(5 + At(dbuf, 4) + 1))
           /\ IsIncomplete(dec) => (short \/ partial) /\ dec.err.n > Len(dbuf)

\* a frame of encode with only its checksum byte withheld
C2_Witness ==
    /\ packet.tag = "Ok" /\ dec # NoValue
    /\ Len(packet.val) > 6
    /\ dbuf = Slice(packet.val, 0, Len(packet.val) - 1)
    /\ dec = Err(Incomplete(Len(packet.val)))

\* decode was given encode's frame with exactly one byte replaced
IsSingleFlip ==
    /\ packet.tag = "Ok" /\ dec # NoValue
    /\ Len(dbuf) = Len(packet.val)
    /\ Cardinality({i \in 1..Len(dbuf) : dbuf[i] # packet.val[i]}) = 1

\* the offset of the replaced byte
FlipOffset == (CHOOSE i \in 1..Len(dbuf) : dbuf[i] # packet.val[i]) - 1

\* C3 as stated: one replaced byte, at any position, makes decode fail with
\* InvalidHead or InvalidSum.
C3_AnyByte ==
    IsSingleFlip => dec \in {Err(InvalidHead), Err(InvalidSum)}

\* C3 amended: a replaced header byte gives InvalidHead; a replaced address, opcode,
\* payload or checksum byte gives InvalidSum; a length byte replaced by a larger
\* value L' gives Incomplete(5+L'+1), by a smaller one InvalidSum, or Ok when the
\* byte at 5+L' is the truncated sum of the bytes before it.
C3_SingleByte ==
    IsSingleFlip =>
        LET n == At(dbuf, 4)
        IN CASE FlipOffset \in {0, 1} -> dec = Err(InvalidHead)
             [] FlipOffset = 4 ->
                   IF n > At(packet.val, 4)
                   THEN dec = Err(Incomplete(5 + n + 1))
                   ELSE IF At(dbuf, 5 + n) = Total(Slice(dbuf, 0, 5 + n)) % 256
                        THEN dec = Ok(Decoded(At(dbuf, 2), At(dbuf, 3), Slice(dbuf, 5, 5 + n)))
                        ELSE dec = Err(InvalidSum)
             [] OTHER -> dec = Err(InvalidSum)

\* a payload byte of a frame was replaced and decode answered InvalidSum
C3_Witness ==
    /\ IsSingleFlip
    /\ FlipOffset >= 5 /\ FlipOffset < Len(dbuf) - 1
    /\ dec = Err(InvalidSum)

\* C4: for a payload of n <= 64 bytes the frame is 5+n+1 bytes: 57 AB, address,
\* opcode, n, the payload, and the sum of all bytes before it modulo 256;
\* address 00, opcode 02, payload 00 00 04 00 00 00 00 00 ends in checksum 10.
C4_FrameLayout ==
    (CopyCase /\ packet # NoValue) =>
        /\ packet.tag = "Ok"
        /\ LET p == packet.val
               n == Len(tc.w.data)
           IN /\ Len(p) = 5 + n + 1
              /\ At(p, 0) = \h57 /\ At(p, 1) = \hAB
              /\ At(p, 2) = tc.addr
              /\ At(p, 3) = tc.cmd
              /\ At(p, 4) = n
              /\ Slice(p, 5, 5 + n) = tc.w.data
              /\ At(p, 5 + n) = Total(Slice(p, 0, 5 + n)) % 256
        /\ (tc.addr = \h00 /\ tc.cmd = \h02 /\ tc.w.data = TestData) =>
              packet.val = <<\h57, \hAB, \h00, \h02, \h08, \h00, \h00, \h04,
                             \h00, \h00, \h00, \h00, \h00, \h10>>

\* the frame of tests::test_encode, written over a buffer that was not zero
C4_Witness ==
    /\ CopyCase /\ tc.addr = \h00 /\ tc.cmd = \h02 /\ tc.w.data = TestData
    /\ tc.fill # \h00
    /\ packet.tag = "Ok" /\ At(packet.val, 13) = \h10

\* the test case is Command::data of SendKbGeneralData with at most 6 key codes
KbCase ==
    /\ tc.kind = "encode" /\ tc.w.fn = "command"
    /\ tc.w.command.variant = "SendKbGeneralData"
    /\ Len(tc.w.command.codes) <= 6

\* C10: for SendKbGeneralData with modifiers m and k <= 6 key codes, Command::data
\* returns 8 and leaves [m, 00, c1..ck, 00 x (6-k)] in the first 8 bytes of the
\* destination, whatever it held before.
C10_KbPayload ==
    (KbCase /\ wres # NoValue) =>
        LET c == tc.w.command
        IN /\ wres.tag = "Ok"
           /\ wres.len = 8
           /\ Slice(wres.buf, 0, 8) =
                 <<c.modifiers, \h00>> \o c.codes \o Fill(6 - Len(c.codes), \h00)
           /\ Len(c.codes) = 0 => Slice(wres.buf, 0, 8) = <<c.modifiers, 0, 0, 0, 0, 0, 0, 0>>
           /\ Len(c.codes) = 1 =>
                 Slice(wres.buf, 0, 8) = <<c.modifiers, 0, c.codes[1], 0, 0, 0, 0, 0>>

\* one key code with LEFT_SHIFT written over a destination full of AA
C10_Witness ==
    /\ KbCase /\ Len(tc.w.command.codes) = 1 /\ tc.w.command.modifiers = LEFT_SHIFT
    /\ tc.fill = \hAA
    /\ wres # NoValue /\ wres.tag = "Ok"

\* Response::decode was called with opcode c and has returned
ResponseCase(c) == tc.kind = "response" /\ tc.cmd = c /\ rsp # NoValue

\* C11: Response::decode with opcode 88 returns InvalidData for a payload of any
\* length but 50; for a 50-byte payload it returns GetParaCfg with operation_mode
\* byte 0, serial_communication_mode byte 1, addr byte 2, baud_rate the big-endian
\* value of bytes 3..6, vid of bytes 11..12 and pid of bytes 13..14.
C11_ParaCfg ==
    ResponseCase(\h88) =>
        LET d == tc.data
        IN IF Len(d) # 50
           THEN rsp = Err(InvalidData)
           ELSE /\ rsp.tag = "Ok"
                /\ rsp.val.variant = "GetParaCfg"
                /\ rsp.val.cfg.operation_mode = d[1]
                /\ rsp.val.cfg.serial_communication_mode = d[2]
                /\ rsp.val.cfg.addr = d[3]
                /\ rsp.val.cfg.baud_rate = ((d[4] * 256 + d[5]) * 256 + d[6]) * 256 + d[7]
                /\ rsp.val.cfg.vid = d[12] * 256 + d[13]
                /\ rsp.val.cfg.pid = d[14] * 256 + d[15]

\* the chip's default configuration was decoded: 9600 baud, VID 1A86, PID E129
C11_Witness ==
    /\ ResponseCase(\h88) /\ Len(tc.data) = 50 /\ rsp.tag = "Ok"
    /\ rsp.val.cfg.baud_rate = 9600
    /\ rsp.val.cfg.vid = 6790 /\ rsp.val.cfg.pid = 57641

\* c is the UTF-8 form of one Unicode scalar value
IsUtf8Char(c) ==
    LET tail(i) == c[i] \in 128..191
    IN \/ Len(c) = 1 /\ c[1] \in 0..127
       \/ Len(c) = 2 /\ c[1] \in 194..223 /\ tail(2)
       \/ /\ Len(c) = 3 /\ tail(3)
          /\ \/ c[1] = 224 /\ c[2] \in 160..191
             \/ c[1] \in (225..236) \cup (238..239) /\ tail(2)
             \/ c[1] = 237 /\ c[2] \in 128..159
       \/ /\ Len(c) = 4 /\ tail(3) /\ tail(4)
          /\ \/ c[1] = 240 /\ c[2] \in 144..191
             \/ c[1] \in 241..243 /\ tail(2)
             \/ c[1] = 244 /\ c[2] \in 128..143

RECURSIVE IsUtf8(_)
\* v is a concatenation of such forms
IsUtf8(v) ==
    \/ v = <<>>
    \/ \E k \in 1..Min(4, Len(v)) :
          IsUtf8Char(SubSeq(v, 1, k)) /\ IsUtf8(SubSeq(v, k + 1, Len(v)))

\* C12: Response::decode with opcode 8A returns InvalidData for a payload shorter
\* than 2 bytes and for one whose byte 1 differs from the payload length minus 2; it
\* returns a GetUsbString response only when byte 0 is 0, 1 or 2, byte 1 matches and
\* the bytes after it are valid UTF-8.
C12_UsbString ==
    ResponseCase(\h8A) =>
        LET d == tc.data
        IN /\ Len(d) < 2 => rsp = Err(InvalidData)
           /\ (Len(d) >= 2 /\ d[2] # Len(d) - 2) => rsp = Err(InvalidData)
           /\ rsp.tag = "Ok" =>
                 /\ rsp.val.variant = "GetUsbString"
                 /\ Len(d) >= 2
                 /\ d[1] \in {\h00, \h01, \h02}
                 /\ d[2] = Len(d) - 2
                 /\ IsUtf8(SubSeq(d, 3, Len(d)))

\* a product string holding a two-byte character was decoded
C12_Witness ==
    /\ ResponseCase(\h8A) /\ rsp.tag = "Ok"
    /\ rsp.val.type_ = "Product"
    /\ rsp.val.descriptor = <<\h41, \hC3, \hA9>>

ReplyOpcodes == {\h81, \h82, \h88, \h8A}

\* the opcodes Command::cmd gives, one command of each variant
RequestOpcodes ==
    {Command_cmd(c) : c \in {GetInfo, SendKbGeneralData(KeyModifiers_empty, <<>>),
                             SendMyHidData(<<>>), GetParaCfg, GetUsbString("Vendor")}}

\* C13: Response::decode returns InvalidCmd exactly when the opcode is none of 81,
\* 82, 88, 8A, whatever the payload; so it does for each request opcode 01, 02, 06,
\* 08, 0A of Command::cmd.
C13_InvalidCmd ==
    (tc.kind = "response" /\ rsp # NoValue) =>
        /\ rsp = Err(InvalidCmd) <=> tc.cmd \notin ReplyOpcodes
        /\ tc.cmd \in RequestOpcodes => rsp = Err(InvalidCmd)
        /\ RequestOpcodes = {\h01, \h02, \h06, \h08, \h0A}

\* the opcode of the SendKbGeneralData request came back with a one-byte payload
C13_Witness ==
    /\ ResponseCase(\h02) /\ tc.data = <<\h00>>
    /\ rsp = Err(InvalidCmd)

\* the status names of the bytes E1..E6, in order
StatusNames == <<"ErrTimeout", "ErrHead", "ErrCmd", "ErrSum", "ErrPara", "ErrOperate">>

\* C14: Response::decode with opcode 82 returns SendKbGeneralData(status) exactly
\* when the payload is one byte among 00, E1..E6 (Success, ErrTimeout, ErrHead,
\* ErrCmd, ErrSum, ErrPara, ErrOperate); any other byte or length gives InvalidData.
C14_Status ==
    ResponseCase(\h82) =>
        LET d == tc.data
        IN IF Len(d) = 1 /\ d[1] \in {\h00} \cup (\hE1..\hE6)
           THEN rsp = Ok([variant |-> "SendKbGeneralData",
                          status |-> IF d[1] = \h00 THEN "Success"
                                     ELSE StatusNames[d[1] - \hE0]])
           ELSE rsp = Err(InvalidData)

\* the status byte E6 was decoded
C14_Witness ==
    /\ ResponseCase(\h82) /\ tc.data = <<\hE6>>
    /\ rsp.tag = "Ok" /\ rsp.val.status = "ErrOperate"

\* the bytes the key table is said to cover: space, digits, letters of both cases,
\* and the punctuation 21-2F, 3A-40, 5B-60, 7B-7E
Covered ==
    {\h20} \cup (\h30..\h39) \cup (\h41..\h5A) \cup (\h61..\h7A)
        \cup (\h21..\h2F) \cup (\h3A..\h40) \cup (\h5B..\h60) \cup (\h7B..\h7E)

\* C15 as stated: from_ascii returns a mapping for every covered byte and None for
\* every other; the two cases of a letter map to one key code, shift set for the
\* upper case only; '0' maps to the code of ')'.
C15_AsciiTable ==
    (tc.kind = "ascii" /\ key # NoValue) =>
        LET v == tc.value
        IN /\ key \in {None} \cup {Some(<<sh, c>>) : sh \in BOOLEAN, c \in Byte}
           /\ key = None <=> v \notin Covered
           /\ v \in \h41..\h5A =>
                 /\ key.tag = "Some" /\ key.val[1] = TRUE
                 /\ from_ascii(v + 32) = Some(<<FALSE, key.val[2]>>)
           /\ v = \h30 =>
                 /\ key.tag = "Some"
                 /\ from_ascii(\h29).tag = "Some"
                 /\ key.val[2] = from_ascii(\h29).val[2]

---------------------------------------------------------------------------
(* ch9329-serialport/src/lib.rs: Device<P>, P: Read + Write *)

\* Error::Ch9329(e) and Error::Io(e) of the serialport crate
Ch9329(e) == [kind |-> "Ch9329", err |-> e]
Io(k) == [kind |-> "Io", err |-> k]

\* A frame as the chip puts it on the line
Reply(a, cmd, payload) ==
    encode(Fill(MAX_PACKET_SIZE, \h00), a, cmd, CopyWriter(payload)).packet

KbSuccess == Reply(\h00, \h82, <<\h00>>)
UsbStringHi == Reply(\h01, \h8A, <<\h00, \h02, \h68, \h69>>)

\* What the line can bring between two calls: replies (good and bad), damaged
\* frames, a length byte past 64, two frames back to back, a fragment
Streams ==
    {KbSuccess,
     UsbStringHi,
     Reply(\h00, \h82, <<\h07>>),
     Reply(\h00, \h8A, <<\h01, \h02, \hC3, \h28>>),
     Reply(\h00, \h02, <<>>),
     [KbSuccess EXCEPT ![7] = (@ + 1) % 256],
     [KbSuccess EXCEPT ![1] = \h00],
     <<\h57, \hAB, \h00, \h82, \h41, \h00>>,
     KbSuccess \o UsbStringHi,
     <<\h57, \hAB, \h00>>}

\* What clear is called to purge: stale bytes of an earlier exchange
StaleStreams == {KbSuccess, <<\h57, \hAB, \h00>>}

\* The commands a caller sends
SendCommands ==
    {GetInfo, GetParaCfg, GetUsbString("Product"),
     SendKbGeneralData(LEFT_SHIFT, <<\h04>>),
     SendKbGeneralData(KeyModifiers_empty, <<>>),
     SendMyHidData(<<\h01, \h02, \h03>>),
     SendMyHidData(Fill(65, \h01))}

\* io::ErrorKind values a port call can fail with
IoErrors == {"TimedOut", "BrokenPipe"}

\* port.read(&mut slice) with a slice of cap bytes: Ok(n) with the next n pending
\* bytes, 1 <= n <= cap; Ok(0); or an error. A Read may do any of these at any time.
ReadOutcomes(cap) ==
    LET m == Min(cap, Len(port.rx))
    IN {Ok(Slice(port.rx, 0, n)) : n \in {k \in 1..m : k <= MaxStep \/ k = m}}
          \cup {Ok(<<>>)} \cup {Err(e) : e \in IoErrors}

\* the pending bytes after a read with outcome r
AfterRead(r) ==
    [rx |-> IF r.tag = "Ok" THEN Slice(port.rx, Len(r.val), Len(port.rx)) ELSE port.rx]

ReadEntry(r) ==
    [op |-> "read",
     ret |-> IF r.tag = "Err" THEN r.err ELSE IF r.val = <<>> THEN "zero" ELSE "data"]

\* the log with one more read; a read that returned data directly after another is
\* not entered again
LogRead(r) ==
    IF io # <<>> /\ io[Len(io)] = ReadEntry(r) /\ ReadEntry(r).ret = "data"
    THEN io
    ELSE Append(io, ReadEntry(r))

\* a call begins on an idle device; s is what the line brought since the last call
\* (nothing while earlier bytes are still pending)
Begin(c, s) ==
    /\ pc = "idle" /\ ncalls < MaxCalls
    /\ port.rx # <<>> => s = <<>>
    /\ call' = c
    /\ ncalls' = ncalls + 1
    /\ buf0' = buf
    /\ result' = NoValue
    /\ UNCHANGED <<addr, tc, cbuf, packet, dbuf, dec, wres,
                   pureVars, copyVars>>

Return(r) == result' = r /\ pc' = "idle"

\* --- Device::clear ---

\* clear counting only the last read: len = n for len += n
clear_on_read_last(l, r) ==
    CASE r.tag = "Ok" /\ r.val = <<>> -> [done |-> TRUE, len |-> l, ret |-> Ok(l)]
      [] r.tag = "Ok" /\ r.val # <<>> -> [done |-> FALSE, len |-> Len(r.val), ret |-> NoValue]
      [] r.tag = "Err" /\ r.err = "TimedOut" -> [done |-> TRUE, len |-> l, ret |-> Ok(l)]
      [] OTHER -> [done |-> TRUE, len |-> l, ret |-> Err(Io(r.err))]

\* the match of clear's loop on the result r of a read, with the running count l
clear_on_read(l, r) ==
    CASE r.tag = "Ok" /\ r.val = <<>> -> [done |-> TRUE, len |-> l, ret |-> Ok(l)]
      [] r.tag = "Ok" /\ r.val # <<>> -> [done |-> FALSE, len |-> l + Len(r.val), ret |-> NoValue]
      [] r.tag = "Err" /\ r.err = "TimedOut" -> [done |-> TRUE, len |-> l, ret |-> Ok(l)]
      [] OTHER -> [done |-> TRUE, len |-> l, ret |-> Err(Io(r.err))]

ClearCall ==
    /\ \E s \in StaleStreams \cup {<<>>} :
          /\ Begin([name |-> "clear"], s)
          /\ port' = [rx |-> port.rx \o s]
    /\ pc' = "clear"
    /\ len' = 0
    /\ total' = 0
    /\ io' = <<>> /\ nreads' = 0 /\ got' = <<>>
    /\ UNCHANGED buf

\* one iteration of clear's loop: self.port.read(&mut self.buf) and the match
ClearRead ==
    /\ pc = "clear"
    /\ \E r \in ReadOutcomes(Len(buf)) :
          LET m == clear_on_read(len, r)
          IN /\ port' = AfterRead(r)
             /\ buf' = IF r.tag = "Ok" THEN Splice(buf, 0, r.val) ELSE buf
             /\ got' = IF r.tag = "Ok" THEN got \o r.val ELSE got
             /\ io' = LogRead(r)
             /\ nreads' = Min(nreads + 1, MaxCounted)
             /\ len' = m.len
             /\ IF m.done THEN Return(m.ret) ELSE UNCHANGED <<pc, result>>
    /\ UNCHANGED <<addr, call, total, buf0, ncalls, tc, cbuf, packet, dbuf, dec, wres,
                   pureVars, copyVars>>

\* --- Device::send ---

\* port.write_all(packet): all of it accepted, or an error after k < len bytes
WriteOutcomes(p) ==
    {[ret |-> Ok(<<>>), accepted |-> Len(p)]}
        \cup {[ret |-> Err(e), accepted |-> k] : e \in {"WriteZero", "BrokenPipe"},
                                               k \in 0..(Len(p) - 1)}

\* the packet of send: encode(&mut self.buf, self.addr, command.cmd(), |buf| command.data(buf))
send_frame(b, a, command) ==
    encode(b, a, Command_cmd(command), CommandWriter(command))

\* send up to write_all: encode into the buffer, hand the packet to the port
SendCall ==
    /\ \E command \in SendCommands :
          /\ Begin([name |-> "send", command |-> command], <<>>)
          /\ LET e == send_frame(buf, addr, command)
             IN IF e.tag = "Panic"
                THEN /\ pc' = "panicked" /\ result' = Panic
                     /\ io' = <<>>
                     /\ UNCHANGED buf
                ELSE /\ buf' = e.buf
                     /\ \E w \in WriteOutcomes(e.packet) :
                           /\ io' = <<[op |-> "write_all", bytes |-> e.packet,
                                       accepted |-> w.accepted, ret |-> w.ret]>>
                           /\ IF w.ret.tag = "Ok"
                              THEN pc' = "send_flush"
                              ELSE pc' = "idle" /\ result' = Err(Io(w.ret.err))
    /\ nreads' = 0 /\ got' = <<>>
    \* send has no locals len and total: those of the call before are gone
    /\ len' = 0 /\ total' = 0
    /\ UNCHANGED port

\* self.port.flush()?; Ok(())
SendFlush ==
    /\ pc = "send_flush"
    /\ \E f \in {Ok(<<>>)} \cup {Err(e) : e \in IoErrors} :
          /\ io' = Append(io, [op |-> "flush", ret |-> f])
          /\ Return(IF f.tag = "Ok" THEN Ok(<<>>) ELSE Err(Io(f.err)))
    /\ UNCHANGED <<port, buf, addr, call, len, total, nreads, got, buf0, ncalls,
                   tc, cbuf, packet, dbuf, dec, wres,
                   pureVars, copyVars>>

\* --- Device::recv ---

\* the lines after recv's loop: decode(packet)?, Response::decode(cmd, data)?
recv_finish(p) ==
    LET d == decode(p)
    IN IF d.tag # "Ok" THEN Err(Ch9329(d.err))
       ELSE LET r == Response_decode(d.val.cmd, d.val.data)
            IN IF r.tag # "Ok" THEN Err(Ch9329(r.err))
               ELSE Ok(<<d.val.addr, r.val>>)

\* recv's n == 0 test left out: an empty read is taken as "nothing yet"
recv_on_read_retry(l, r) ==
    CASE r.tag = "Err" -> [done |-> TRUE, len |-> l, ret |-> Err(Io(r.err))]
      [] OTHER -> [done |-> FALSE, len |-> l + Len(r.val), ret |-> NoValue]

\* recv's len += n left out: the bytes read are not counted
recv_on_read_nocount(l, r) ==
    CASE r.tag = "Err" -> [done |-> TRUE, len |-> l, ret |-> Err(Io(r.err))]
      [] r.tag = "Ok" /\ r.val = <<>> ->
            [done |-> TRUE, len |-> l, ret |-> Err(Io("UnexpectedEof"))]
      [] OTHER -> [done |-> FALSE, len |-> l, ret |-> NoValue]

\* the body of recv's loop after the read returned r, with the running length l
recv_on_read(l, r) ==
    CASE r.tag = "Err" -> [done |-> TRUE, len |-> l, ret |-> Err(Io(r.err))]
      [] r.tag = "Ok" /\ r.val = <<>> ->
            [done |-> TRUE, len |-> l, ret |-> Err(Io("UnexpectedEof"))]
      [] OTHER -> [done |-> FALSE, len |-> l + Len(r.val), ret |-> NoValue]

\* the read given buf[..total]: the bytes land at the start of the buffer
recv_read_at_start(b, l, bytes) == Splice(b, 0, bytes)

\* the buffer after a read into buf[len..total] returned bytes
recv_read(b, l, bytes) == Splice(b, l, bytes)

\* the read given all of the buffer past len: buf[len..]
recv_read_cap_rest(l, t) == MAX_PACKET_SIZE - l

\* the size of the slice buf[len..total] the read is given
recv_read_cap(l, t) == t - l

\* the length recv starts from, were it kept from the call before
recv_len_kept == len

\* let mut len = 0
recv_len == 0

RecvCall ==
    /\ \E s \in Streams \cup {<<>>} :
          /\ Begin([name |-> "recv"], s)
          /\ port' = [rx |-> port.rx \o s]
    /\ pc' = "recv"
    /\ len' = recv_len
    /\ total' = 0
    /\ io' = <<>> /\ nreads' = 0 /\ got' = <<>>
    /\ UNCHANGED buf

\* the decode of recv's loop condition
RecvDecode == decode(Slice(buf, 0, len))

\* one iteration of recv's loop: decode reported Incomplete(total), read into
\* buf[len..total]
RecvRead ==
    /\ pc = "recv"
    /\ IsIncomplete(RecvDecode)
    /\ LET t == RecvDecode.err.n
       IN /\ len <= t /\ t <= Len(buf)
          /\ total' = t
          /\ \E r \in ReadOutcomes(recv_read_cap(len, t)) :
                LET m == recv_on_read(len, r)
                IN /\ port' = AfterRead(r)
                   /\ buf' = IF r.tag = "Ok" THEN recv_read(buf, len, r.val) ELSE buf
                   /\ got' = IF r.tag = "Ok" THEN got \o r.val ELSE got
                   /\ io' = LogRead(r)
                   /\ nreads' = Min(nreads + 1, MaxCounted)
                   /\ len' = m.len
                   /\ IF m.done THEN Return(m.ret) ELSE UNCHANGED <<pc, result>>
    /\ UNCHANGED <<addr, call, buf0, ncalls, tc, cbuf, packet, dbuf, dec, wres,
                   pureVars, copyVars>>

\* decode reported Incomplete(total) with total past the buffer: the slice
\* buf[len..total] is out of range and recv panics
RecvPanic ==
    /\ pc = "recv"
    /\ IsIncomplete(RecvDecode)
    /\ LET t == RecvDecode.err.n
       IN /\ len > t \/ t > Len(buf)
          /\ total' = t
    /\ pc' = "panicked" /\ result' = Panic
    /\ UNCHANGED <<port, buf, addr, call, len, io, nreads, got, buf0, ncalls,
                   tc, cbuf, packet, dbuf, dec, wres,
                   pureVars, copyVars>>

\* recv starting over when the frame it accumulated does not decode
RecvReturn_retry ==
    /\ pc = "recv"
    /\ ~IsIncomplete(RecvDecode)
    /\ IF recv_finish(Slice(buf, 0, len)).tag = "Ok"
       THEN Return(recv_finish(Slice(buf, 0, len))) /\ UNCHANGED len
       ELSE len' = 0 /\ UNCHANGED <<pc, result>>
    /\ UNCHANGED <<port, buf, addr, call, total, io, nreads, got, buf0, ncalls,
                   tc, cbuf, packet, dbuf, dec, wres, pureVars, copyVars>>

\* the loop ended: decode did not report Incomplete
RecvReturn ==
    /\ pc = "recv"
    /\ ~IsIncomplete(RecvDecode)
    /\ Return(recv_finish(Slice(buf, 0, len)))
    /\ UNCHANGED <<port, buf, addr, call, len, total, io, nreads, got, buf0, ncalls,
                   tc, cbuf, packet, dbuf, dec, wres,
                   pureVars, copyVars>>

Init ==
    /\ open_usb
    /\ tc = NoValue /\ cbuf = <<>> /\ packet = NoValue
    /\ dbuf = <<>> /\ dec = NoValue /\ wres = NoValue
    /\ rsp = NoValue /\ key = NoValue
    /\ NoCopy

Next ==
    \/ ClearCall
    \/ ClearRead
    \/ SendCall
    \/ SendFlush
    \/ RecvCall
    \/ RecvRead
    \/ RecvPanic
    \/ RecvReturn

Spec == Init /\ [][Next]_vars

---------------------------------------------------------------------------
(* ch9329-copy/src/main.rs: main *)

\* what stdin.bytes() yields: 'A', 'a', ':', a line feed, or a read error
StdinItems == {Ok(\h41), Ok(\h61), Ok(\h3A), Ok(\h0A), Err("Interrupted")}

\* the replies the chip gives to a key frame: success, a timeout status, an
\* unknown status byte
CopyReplies == {KbSuccess, Reply(\h00, \h82, <<\hE1>>), Reply(\h00, \h82, <<\h07>>)}

\* the key-press command of the loop, without the shift test
press_noshift(shift, code) == SendKbGeneralData(KeyModifiers_empty, <<code>>)

\* the key-press command of the loop
press(shift, code) ==
    SendKbGeneralData(IF shift THEN LEFT_SHIFT ELSE KeyModifiers_empty, <<code>>)

\* the key-release command of the loop
release == SendKbGeneralData(KeyModifiers_empty, <<>>)

RECURSIVE keys_next(_, _, _)
\* keys.next() with p items taken: stdin's bytes with the unmapped ones filtered
\* out, chained with RETURN when the flag is set
keys_next(items, flag, p) ==
    IF p < Len(items)
    THEN LET b == items[p + 1]
         IN IF b.tag = "Err" THEN [pos |-> p + 1, item |-> Some(Err(b.err))]
            ELSE IF from_ascii(b.val).tag = "Some"
                 THEN [pos |-> p + 1, item |-> Some(Ok(from_ascii(b.val).val))]
                 ELSE keys_next(items, flag, p + 1)
    ELSE IF p = Len(items) /\ flag
         THEN [pos |-> p + 1, item |-> Some(Ok(<<FALSE, RETURN>>))]
         ELSE [pos |-> p, item |-> None]

\* the session opened, the arguments parsed, stdin not yet read
CopyInit ==
    /\ open_usb
    /\ tc = NoValue /\ cbuf = <<>> /\ packet = NoValue
    /\ dbuf = <<>> /\ dec = NoValue /\ wres = NoValue
    /\ rsp = NoValue /\ key = NoValue
    /\ stdin \in SeqsUpTo(StdinItems, MaxInput)
    /\ return_ \in BOOLEAN
    /\ pos = 0 /\ cur = NoValue
    /\ mpc = "clear" /\ trace = <<>> /\ exit = NoValue

\* main returns r
Exit(r) == mpc' = "exit" /\ exit' = r

unchangedByMain ==
    <<port, addr, call, pc, len, total, result, io, nreads, got, buf0, ncalls,
      codecVars, pureVars, stdin, return_>>

\* device.clear()?: stale bytes, if any, pass through the buffer
MainClear ==
    /\ mpc = "clear"
    /\ \E stale \in StaleStreams \cup {<<>>} :
          \E r \in {Ok(Len(stale)), Err(Io("BrokenPipe"))} :
             /\ buf' = Splice(buf, 0, stale)
             /\ trace' = Append(trace, [op |-> "clear", ret |-> r.tag])
             /\ IF r.tag = "Ok" THEN mpc' = "next" /\ UNCHANGED exit ELSE Exit(r)
    /\ UNCHANGED <<pos, cur>>
    /\ UNCHANGED unchangedByMain

\* for key in keys { let (shift, code) = key?; .. }: the loop takes the next key,
\* or ends with Ok(()), or with the error stdin gave
MainNextKey ==
    /\ mpc = "next"
    /\ LET n == keys_next(stdin, return_, pos)
       IN /\ pos' = n.pos
          /\ CASE n.item = None -> Exit(Ok(<<>>)) /\ cur' = NoValue
               [] n.item # None /\ n.item.val.tag = "Err" ->
                     Exit(Err(Io(n.item.val.err))) /\ cur' = NoValue
               [] OTHER -> mpc' = "press_send" /\ cur' = n.item.val.val /\ UNCHANGED exit
    /\ UNCHANGED <<buf, trace>>
    /\ UNCHANGED unchangedByMain

\* device.send(command)? at position at; on Ok main goes on to position to
MainSend(at, command, to) ==
    /\ mpc = at
    /\ LET e == send_frame(buf, addr, command)
       IN IF e.tag = "Panic"
          THEN mpc' = "panicked" /\ exit' = Panic /\ UNCHANGED <<buf, trace>>
          ELSE /\ buf' = e.buf
               /\ \E r \in {Ok(<<>>)} \cup {Err(Io(k)) : k \in IoErrors} :
                     /\ trace' = Append(trace, [op |-> "send", command |-> command,
                                                frame |-> e.packet, ret |-> r.tag])
                     /\ IF r.tag = "Ok" THEN mpc' = to /\ UNCHANGED exit ELSE Exit(r)
    /\ UNCHANGED <<pos, cur>>
    /\ UNCHANGED unchangedByMain

\* device.recv()? at position at: a reply frame comes in and is decoded, or a read fails
MainRecv(at, to) ==
    /\ mpc = at
    /\ \/ \E f \in CopyReplies :
             LET r == recv_finish(f)
             IN /\ buf' = Splice(buf, 0, f)
                /\ trace' = Append(trace, [op |-> "recv", ret |-> r.tag])
                /\ IF r.tag = "Ok" THEN mpc' = to /\ UNCHANGED exit ELSE Exit(r)
       \/ \E k \in IoErrors \cup {"UnexpectedEof"} :
             /\ trace' = Append(trace, [op |-> "recv", ret |-> "Err"])
             /\ Exit(Err(Io(k)))
             /\ UNCHANGED buf
    /\ UNCHANGED <<pos, cur>>
    /\ UNCHANGED unchangedByMain

MainPress == MainSend("press_send", press(cur[1], cur[2]), "press_recv")

MainPressRecv == MainRecv("press_recv", "release_send")

MainRelease == MainSend("release_send", release, "release_recv")

MainReleaseRecv == MainRecv("release_recv", "next")

CopyNext ==
    \/ MainClear
    \/ MainNextKey
    \/ MainPress
    \/ MainPressRecv
    \/ MainRelease
    \/ MainReleaseRecv

SpecCopy == CopyInit /\ [][CopyNext]_vars

---------------------------------------------------------------------------
(* Properties of the session, checked under Spec *)

\* the bytes pending in the port when the running call began
rx0 == got \o port.rx

\* b begins with a frame that decodes to a Response
StartsWithReply(b) ==
    /\ Len(b) >= 6
    /\ Len(b) >= 5 + At(b, 4) + 1
    /\ recv_finish(Slice(b, 0, 5 + At(b, 4) + 1)).tag = "Ok"

\* the (address, Response) of the frame b begins with
ReplyOf(b) ==
    LET d == decode(Slice(b, 0, 5 + At(b, 4) + 1)).val
    IN Ok(<<d.addr, Response_decode(d.cmd, d.data).val>>)

RecvReturned == call.name = "recv" /\ pc = "idle"

NoReadFailed == \A i \in 1..Len(io) : io[i].ret \in {"data", "zero"}

AllReadsGaveData == \A i \in 1..Len(io) : io[i].ret = "data"

\* C5 as stated: with a valid reply frame pending and no read failing, recv returns that
\* frame's (address, Response) however the reads split it, reads of no bytes included.
C5_EmptyReadsTolerated ==
    (RecvReturned /\ StartsWithReply(rx0) /\ NoReadFailed) => result = ReplyOf(rx0)

\* C5 amended: with a valid reply frame pending, recv returns that frame's
\* (address, Response) however the reads split it, provided every read returns at
\* least one byte; a read of no bytes makes it return UnexpectedEof instead.
C5_SplitReads ==
    (RecvReturned /\ StartsWithReply(rx0) /\ NoReadFailed) =>
        IF AllReadsGaveData
        THEN result = ReplyOf(rx0)
        ELSE result = Err(Io("UnexpectedEof"))

\* a reply frame came in three or more reads, over a buffer that held other bytes
C5_Witness ==
    /\ RecvReturned /\ StartsWithReply(rx0) /\ AllReadsGaveData
    /\ nreads >= 3 /\ result.tag = "Ok"
    /\ Slice(buf0, 0, len) # got

\* C6: in recv a read of zero bytes is the call's last port call: recv has returned
\* Err(Io(UnexpectedEof)), whatever had been accumulated.
C6_ZeroReadIsEof ==
    call.name = "recv" =>
        \A i \in 1..Len(io) :
            io[i].ret = "zero" =>
                /\ i = Len(io)
                /\ pc = "idle"
                /\ result = Err(Io("UnexpectedEof"))

\* the header and more had been read when a read returned nothing
C6_Witness ==
    /\ call.name = "recv" /\ pc = "idle"
    /\ len > 6 /\ io = <<[op |-> "read", ret |-> "data"], [op |-> "read", ret |-> "zero"]>>
    /\ result = Err(Io("UnexpectedEof"))

\* what recv returns, from the bytes its reads returned and how the last read ended
RecvOutcome ==
    LET last == IF io = <<>> THEN "data" ELSE io[Len(io)].ret
    IN CASE last = "zero" -> Err(Io("UnexpectedEof"))
         [] last \in IoErrors -> Err(Io(last))
         [] OTHER -> IF IsIncomplete(decode(got)) THEN Panic ELSE recv_finish(got)

\* C7: in recv the bytes taken as the frame, buf[..len], are exactly the bytes the
\* reads of this call returned, and the value returned is a function of those bytes
\* and of how the last read ended: nothing the buffer held before the call counts.
C7_NoStaleBytes ==
    call.name = "recv" =>
        /\ Slice(buf, 0, len) = got
        /\ pc \in {"idle", "panicked"} => result = RecvOutcome

\* recv returned Ok after an earlier call; bytes of that call lie under and past the frame
C7_Witness ==
    /\ RecvReturned /\ result.tag = "Ok" /\ ncalls >= 2
    /\ Slice(buf0, 0, len) # got
    /\ \E i \in (len + 1)..Len(buf) : buf[i] # \h00

\* the frame of the running send, encoded into a buffer of zeros
FreshFrame ==
    encode(Fill(MAX_PACKET_SIZE, \h00), addr, Command_cmd(call.command),
           CommandWriter(call.command))

C9_ClearTotal ==
    call.name = "clear" =>
        /\ pc = "clear" => AllReadsGaveData /\ len = Len(got)
        /\ pc = "idle" =>
              /\ io # <<>>
              /\ \A i \in 1..(Len(io) - 1) : io[i].ret = "data"
              /\ LET last == io[Len(io)].ret
                 IN CASE last \in {"zero", "TimedOut"} -> result = Ok(Len(got))
                      [] last = "data" -> FALSE
                      [] OTHER -> result = Err(Io(last))

\* three reads or more returned bytes before a read timed out
C9_Witness ==
    /\ call.name = "clear" /\ pc = "idle"
    /\ nreads >= 3 /\ Len(got) >= 5
    /\ io[Len(io)].ret = "TimedOut"
    /\ result = Ok(Len(got))

\* C16 as stated: every slice buf[len..total] recv asks for lies inside the 70-byte
\* buffer, whatever bytes arrive, so recv never ends by an out-of-bounds failure.
C16_ReadInBuffer ==
    call.name = "recv" =>
        /\ pc # "panicked"
        /\ (pc = "recv" /\ IsIncomplete(RecvDecode)) =>
              len <= RecvDecode.err.n /\ RecvDecode.err.n <= MAX_PACKET_SIZE

\* C17: in recv the accumulated length never exceeds the total decode reported last
\* (6, then 5+L+1, L the byte at offset 4), however the reads are cut; when recv
\* returns Ok it has taken exactly 5+L+1 bytes from the port, and what followed
\* them is still pending.
C17_ExactFrame ==
    call.name = "recv" =>
        /\ len <= total
        /\ total \in {0, 6} \/ (len >= 5 /\ total = 5 + At(buf, 4) + 1)
        /\ Len(got) = len
        /\ (pc = "idle" /\ result.tag = "Ok") => len = 5 + At(buf, 4) + 1

\* two frames were pending; recv returned the first, read in pieces, and left the second
C17_Witness ==
    /\ RecvReturned /\ result.tag = "Ok" /\ nreads >= 3
    /\ got = KbSuccess
    /\ port.rx = UsbStringHi

\* recv's loop has ended: decode of the accumulated bytes is not Incomplete
RecvLoopEnded == call.name = "recv" /\ pc = "recv" /\ ~IsIncomplete(RecvDecode)

\* the bytes b, as long as a frame with their length byte, carry a wrong checksum
BadSum(b) ==
    /\ Len(b) = 5 + At(b, 4) + 1
    /\ At(b, Len(b) - 1) # Total(Slice(b, 0, Len(b) - 1)) % 256

\* C18: recv returns InvalidHead when the 6 bytes accumulated do not start with
\* 57 AB, InvalidSum when the 5+L+1 bytes accumulated carry a wrong checksum, and
\* the error of Response::decode (InvalidCmd, InvalidData, a UTF-8 error) when the
\* frame decodes but its payload does not; in each case the step after the last
\* read is the return: no further read, no retry.
C18_ErrorsReturnAtOnce ==
    /\ [](RecvLoopEnded =>
            /\ io # <<>> /\ io[Len(io)].ret = "data"
            /\ Slice(got, 0, 2) # HEAD => Len(got) = 6
            /\ Slice(got, 0, 2) = HEAD => Len(got) = 5 + At(got, 4) + 1)
    /\ [][RecvLoopEnded =>
            /\ pc' = "idle"
            /\ port' = port /\ io' = io /\ nreads' = nreads /\ got' = got /\ buf' = buf
            /\ result' =
                  IF Slice(got, 0, 2) # HEAD THEN Err(Ch9329(InvalidHead))
                  ELSE IF BadSum(got) THEN Err(Ch9329(InvalidSum))
                  ELSE LET r == Response_decode(At(got, 3), Slice(got, 5, Len(got) - 1))
                       IN IF r.tag = "Err" THEN Err(Ch9329(r.err))
                          ELSE Ok(<<At(got, 2), r.val>>)]_vars

\* recv returned a UTF-8 error for a frame read in three or more pieces
C18_Witness ==
    /\ RecvReturned /\ nreads >= 3
    /\ result.tag = "Err" /\ result.err.kind = "Ch9329" /\ result.err.err.kind = "Utf8"
    /\ io[Len(io)].ret = "data"

\* C19: in recv each total that decode reports is greater than the accumulated
\* length, so each read is given a non-empty slice; a read that returns bytes
\* increases the length, any other read ends the call; so the reads of a call are
\* at most 5+L+1 (6 while the length byte is not yet in), and a step of recv is
\* always possible until it has returned.
C19_Progress ==
    /\ [](call.name = "recv" =>
            /\ (pc = "recv" /\ IsIncomplete(RecvDecode)) => RecvDecode.err.n > len
            /\ pc = "recv" => AllReadsGaveData /\ nreads <= len
            /\ pc = "idle" => nreads <= len + (IF io[Len(io)].ret = "data" THEN 0 ELSE 1)
            /\ (len >= 5 /\ At(buf, 4) <= 64) =>
                  len <= 5 + At(buf, 4) + 1 /\ nreads <= 5 + At(buf, 4) + 1
            /\ len < 5 => nreads <= 6
            /\ pc = "recv" => ENABLED (RecvRead \/ RecvPanic \/ RecvReturn))
    /\ [][(call.name = "recv" /\ pc = "recv" /\ pc' = "recv") =>
            len' > len /\ len' <= total']_vars

\* a frame without payload came one byte at a time: six reads, then the return
C19_Witness ==
    /\ RecvReturned /\ nreads = 6 /\ len = 6
    /\ result.tag = "Err" /\ result.err.kind = "Ch9329" /\ result.err.err = InvalidCmd

---------------------------------------------------------------------------
(* Properties of ch9329-copy, checked under SpecCopy *)

RECURSIVE Typed(_)
\* the keys of the input items: (shift, code) for each byte from_ascii maps, in order
Typed(items) ==
    IF items = <<>> THEN <<>>
    ELSE LET front == Typed(SubSeq(items, 1, Len(items) - 1))
             b == items[Len(items)]
         IN IF b.tag = "Ok" /\ from_ascii(b.val).tag = "Some"
            THEN Append(front, from_ascii(b.val).val)
            ELSE front

\* the keys of the items taken so far, RETURN last when the flag set it
KeysTaken ==
    Typed(SubSeq(stdin, 1, Min(pos, Len(stdin))))
        \o (IF pos > Len(stdin) THEN <<<<FALSE, RETURN>>>> ELSE <<>>)

\* the SendKbGeneralData frame for address 00: modifiers m and the key codes
KeyFrame(m, codes) ==
    LET body == <<\h57, \hAB, \h00, \h02, \h08, m, \h00>> \o codes
                    \o Fill(6 - Len(codes), \h00)
    IN Append(body, Total(body) % 256)

\* the Device calls after clear
Calls == IF trace = <<>> THEN <<>> ELSE Tail(trace)

\* C20: the calls of the key loop are, for the mapped bytes of the input in order,
\* send(press frame: the code, LEFT_SHIFT iff shift), recv, send(release frame: no
\* modifiers, no codes), recv; a call is made only after the one before returned
\* Ok, so the first failing call is the last and main returns its error; bytes
\* without a mapping add no call; when main returns Ok every mapped byte has had
\* its four calls.
C20_KeyLoop ==
    /\ trace # <<>> => trace[1].op = "clear"
    /\ \A j \in 1..(Len(trace) - 1) : trace[j].ret = "Ok"
    /\ (trace # <<>> /\ trace[Len(trace)].ret = "Err") => mpc = "exit" /\ exit.tag = "Err"
    /\ mpc # "panicked"
    /\ Len(Calls) <= 4 * Len(KeysTaken)
    /\ KeysTaken # <<>> => Len(Calls) >= 4 * (Len(KeysTaken) - 1)
    /\ \A j \in 1..Len(Calls) :
          LET k == KeysTaken[(j - 1) \div 4 + 1]
              c == Calls[j]
          IN CASE (j - 1) % 4 = 0 ->
                    /\ c.op = "send"
                    /\ c.frame = KeyFrame(IF k[1] THEN 2 ELSE 0, <<k[2]>>)
               [] (j - 1) % 4 = 2 ->
                    /\ c.op = "send"
                    /\ c.frame = KeyFrame(0, <<>>)
               [] OTHER -> c.op = "recv"
    /\ (mpc = "exit" /\ exit = Ok(<<>>)) =>
          /\ \A i \in 1..Len(stdin) : stdin[i].tag = "Ok"
          /\ Len(Calls) = 4 * (Len(Typed(stdin)) + (IF return_ THEN 1 ELSE 0))

\* 'A', ':' and 'a' were read with --return set: three keys typed, ':' skipped
C20_Witness ==
    /\ stdin = <<Ok(\h41), Ok(\h3A), Ok(\h61)>> /\ return_
    /\ mpc = "exit" /\ exit = Ok(<<>>)
    /\ Len(trace) = 13
    /\ trace[2].frame[6] = LEFT_SHIFT /\ trace[6].frame[6] = 0

=============================================================================
